---------------------------- MODULE Spec2Model ----------------------------
(***************************************************************************)
(* Monte Carlo pricing of a European call under geometric Brownian motion: *)
(* the process-wide random generator, the three estimators (plain,         *)
(* antithetic, control variate), the confidence interval and the           *)
(* Black-Scholes reference prices.                                         *)
(*                                                                         *)
(* Reals are fixed-point integers with ONE units to 1.0 (1.96 is 196).     *)
(* Every product and quotient of the source is one fixed-point operation   *)
(* here, rounded down, as a float operation is rounded.  NaN is a value    *)
(* outside the fixed-point range that every operation propagates.          *)
(***************************************************************************)
EXTENDS Integers, Sequences, FiniteSets, TLC

(***************************************************************************)
(* Bounds of the model.                                                    *)
(***************************************************************************)
MaxPaths == 4
MaxSeed == 1
MaxSamples == 3

(***************************************************************************)
(* Fixed-point reals.                                                      *)
(***************************************************************************)
ONE == 100
NaN == -(2^30)
None == -1

IsNaN(x) == x = NaN
Mul(a, b) == IF IsNaN(a) \/ IsNaN(b) THEN NaN ELSE (a * b) \div ONE
Div(a, b) == IF IsNaN(a) \/ IsNaN(b) \/ b = 0 THEN NaN ELSE (a * ONE) \div b
Add(a, b) == IF IsNaN(a) \/ IsNaN(b) THEN NaN ELSE a + b
Sub(a, b) == IF IsNaN(a) \/ IsNaN(b) THEN NaN ELSE a - b
Neg(a) == IF IsNaN(a) THEN NaN ELSE 0 - a
Abs(a) == IF a < 0 THEN 0 - a ELSE a
Gt(a, b) == ~IsNaN(a) /\ ~IsNaN(b) /\ a > b
Le(a, b) == ~IsNaN(a) /\ ~IsNaN(b) /\ a <= b

\* np.sqrt: NaN (with a warning, no exception) below zero
Sqrt(x) ==
    IF IsNaN(x) \/ x < 0 THEN NaN
    ELSE LET y == x * ONE
             top == IF x > ONE THEN x ELSE ONE
         IN CHOOSE s \in 0..top : s * s <= y /\ (s + 1) * (s + 1) > y

\* np.exp: the power series for x >= 0, the reciprocal below zero
RECURSIVE ExpSeries(_, _, _, _)
ExpSeries(x, k, term, acc) ==
    IF term = 0 \/ k > 16 THEN acc
    ELSE LET t == (term * x) \div (k * ONE)
         IN ExpSeries(x, k + 1, t, acc + t)

Exp(x) ==
    IF IsNaN(x) THEN NaN
    ELSE IF x >= 0 THEN ExpSeries(x, 1, ONE, ONE)
    ELSE (ONE * ONE) \div ExpSeries(0 - x, 1, ONE, ONE)

\* np.log on positive reals: the largest y with exp(y) <= x
Log(x) ==
    IF IsNaN(x) \/ x <= 0 THEN NaN
    ELSE CHOOSE y \in (0 - 3 * ONE)..(3 * ONE) : Exp(y) <= x /\ Exp(y + 1) > x

RECURSIVE Sum(_)
Sum(s) == IF s = <<>> THEN 0 ELSE Head(s) + Sum(Tail(s))

HasNaN(s) == \E i \in DOMAIN s : IsNaN(s[i])

\* ndarray.mean / np.mean: NaN (with a warning) on an empty array
Mean(s) ==
    IF Len(s) = 0 \/ HasNaN(s) THEN NaN ELSE Sum(s) \div Len(s)

\* np.maximum(x, 0.0): NaN stays NaN
Maximum0(x) == IF IsNaN(x) THEN NaN ELSE IF x > 0 THEN x ELSE 0


(***************************************************************************)
(* The process-wide generator behind np.random: np.random.seed(seed) puts  *)
(* it in the state the seed determines, and each standard normal drawn     *)
(* advances it by one step.  The state space is a small cyclic one (a      *)
(* linear congruential step of full period) and the normal it yields is    *)
(* read off the state.                                                     *)
(***************************************************************************)
RngStates == 0..15

NormalTab ==
    << 50, -120, 10, 160, -40, -90, 70, -10,
       130, -160, 40, 90, -70, 20, -50, 120 >>

Step(g) == (5 * g + 3) % 16
SeedState(seed) == (7 * seed + 2) % 16
Normal(g) == NormalTab[g + 1]

RECURSIVE StepN(_, _)
StepN(g, n) == IF n <= 0 THEN g ELSE StepN(Step(g), n - 1)

\* the seed ignored: the generator goes on from where it is
Reseed_skipped(g, seed) == g

\* np.random.seed(seed) when a seed is given
Reseed(g, seed) == IF seed # None THEN SeedState(seed) ELSE g

\* np.random.standard_normal(n): the n normals drawn from state g, in order
standard_normal(g, n) == [i \in 1..n |-> Normal(StepN(g, i))]

(***************************************************************************)
(* What a call gives its caller: a returned value or a raised exception,   *)
(* with the state the call leaves the generator in and what it did to it   *)
(* (var is the variance sum of the control variate, NaN where there is     *)
(* none).                                                                  *)
(***************************************************************************)
Return(v, g, seeded, Z, beta) ==
    [kind |-> "return", value |-> v, exc |-> "", rng |-> g,
     seeded |-> seeded, drawn |-> Len(Z), Z |-> Z, beta |-> beta,
     var |-> NaN]

Raise(exc, g, seeded) ==
    [kind |-> "raise", value |-> NaN, exc |-> exc, rng |-> g,
     seeded |-> seeded, drawn |-> 0, Z |-> <<>>, beta |-> 0, var |-> NaN]

\* numpy refuses a negative size before it draws anything
NegativeDimensions == "ValueError: negative dimensions are not allowed"
OddPaths == "ValueError: n_paths must be even for antithetic variates."

generate_standard_normals(n_paths, seed, g) ==
    LET g1 == Reseed(g, seed)
    IN IF n_paths < 0 THEN Raise(NegativeDimensions, g1, seed # None)
       ELSE Return(0, StepN(g1, n_paths), seed # None,
                   standard_normal(g1, n_paths), 0)

(***************************************************************************)
(* src/models/gbm.py                                                       *)
(***************************************************************************)
gbm_terminal_price(S0, mu, sigma, T, Z) ==
    [i \in DOMAIN Z |->
        Mul(S0, Exp(Add(Mul(mu - Mul(sigma, sigma) \div 2, T),
                        Mul(Mul(sigma, Sqrt(T)), Z[i]))))]

(***************************************************************************)
(* src/monte_carlo/simulator.py                                            *)
(***************************************************************************)
Payoff(ST, K) == [i \in DOMAIN ST |-> Maximum0(Sub(ST[i], K))]

monte_carlo_european_call(S0, K, r, sigma, T, n_paths, seed, g) ==
    LET g1 == Reseed(g, seed)
    IN IF n_paths < 0 THEN Raise(NegativeDimensions, g1, seed # None)
       ELSE LET Z == standard_normal(g1, n_paths)
                ST == gbm_terminal_price(S0, r, sigma, T, Z)
                payoff == Payoff(ST, K)
                discounted_price == Mul(Exp(0 - Mul(r, T)), Mean(payoff))
            IN Return(discounted_price, StepN(g1, n_paths), seed # None, Z, 0)

\* the mirrored half drawn afresh instead of reused
AntitheticPairs_second_draw(S0, K, r, sigma, T, n_paths, seed, g) ==
    LET g1 == Reseed(g, seed)
        half == n_paths \div 2
    IN IF half < 0 THEN Raise(NegativeDimensions, g1, seed # None)
       ELSE LET Z == standard_normal(g1, half)
                Z2 == standard_normal(StepN(g1, half), half)
                Z_all == Z \o [i \in DOMAIN Z2 |-> 0 - Z2[i]]
                ST == gbm_terminal_price(S0, r, sigma, T, Z_all)
                payoff == Payoff(ST, K)
            IN [Return(Mul(Exp(0 - Mul(r, T)), Mean(payoff)),
                       StepN(g1, 2 * half), seed # None, Z_all, 0)
                   EXCEPT !.drawn = 2 * half]

\* lines 110-129: the half draw, its mirror image and the price of both
AntitheticPairs(S0, K, r, sigma, T, n_paths, seed, g) ==
    LET g1 == Reseed(g, seed)
        half == n_paths \div 2
    IN IF half < 0 THEN Raise(NegativeDimensions, g1, seed # None)
       ELSE LET Z == standard_normal(g1, half)
                Z_antithetic == [i \in DOMAIN Z |-> 0 - Z[i]]
                Z_all == Z \o Z_antithetic
                ST == gbm_terminal_price(S0, r, sigma, T, Z_all)
                payoff == Payoff(ST, K)
            IN [Return(Mul(Exp(0 - Mul(r, T)), Mean(payoff)),
                       StepN(g1, half), seed # None, Z_all, 0)
                   EXCEPT !.drawn = half]

\* the parity check moved below the seeding
monte_carlo_european_call_antithetic_seed_first(S0, K, r, sigma, T, n_paths, seed, g) ==
    IF n_paths % 2 # 0 THEN Raise(OddPaths, Reseed(g, seed), seed # None)
    ELSE AntitheticPairs(S0, K, r, sigma, T, n_paths, seed, g)

monte_carlo_european_call_antithetic(S0, K, r, sigma, T, n_paths, seed, g) ==
    IF n_paths % 2 # 0 THEN Raise(OddPaths, g, FALSE)
    ELSE AntitheticPairs(S0, K, r, sigma, T, n_paths, seed, g)

\* np.cov(X, Y, ddof=1)[0, 1] and np.var(Y, ddof=1) both divide a sum over
\* the sample by n - 1: NaN (with a warning) when n - 1 <= 0.  The sums are
\* kept exact, so that the quotient cov / var is rounded once.
Deviations(X) == [i \in DOMAIN X |-> Sub(X[i], Mean(X))]
CovSum(X, Y) ==
    IF Len(X) <= 1 \/ HasNaN(X) \/ HasNaN(Y) THEN NaN
    ELSE Sum([i \in DOMAIN X |-> Deviations(X)[i] * Deviations(Y)[i]])
VarSum(Y) == CovSum(Y, Y)

\* the quotient taken without looking at var
Beta_unguarded(X, Y) == Div(CovSum(X, Y), VarSum(Y))

Beta(X, Y) ==
    LET cov == CovSum(X, Y)
        var == VarSum(Y)
    IN IF Gt(var, 0) THEN Div(cov, var) ELSE 0

\* the seeding left out: the draw goes on from wherever the generator is
monte_carlo_european_call_control_variate_unseeded(S0, K, r, sigma, T, n_paths, seed, g) ==
    IF n_paths < 0 THEN Raise(NegativeDimensions, g, FALSE)
    ELSE LET Z == standard_normal(g, n_paths)
             ST == gbm_terminal_price(S0, r, sigma, T, Z)
             disc == Exp(0 - Mul(r, T))
             X == [i \in DOMAIN ST |-> Mul(disc, Maximum0(Sub(ST[i], K)))]
             Y == [i \in DOMAIN ST |-> Mul(disc, ST[i])]
             beta == Beta(X, Y)
             X_cv == [i \in DOMAIN X |-> Add(X[i], Mul(beta, Sub(S0, Y[i])))]
         IN [Return(Mean(X_cv), StepN(g, n_paths), FALSE, Z, beta)
                EXCEPT !.var = VarSum(Y)]

monte_carlo_european_call_control_variate(S0, K, r, sigma, T, n_paths, seed, g) ==
    LET g1 == Reseed(g, seed)
    IN IF n_paths < 0 THEN Raise(NegativeDimensions, g1, seed # None)
       ELSE LET Z == standard_normal(g1, n_paths)
                ST == gbm_terminal_price(S0, r, sigma, T, Z)
                disc == Exp(0 - Mul(r, T))
                X == [i \in DOMAIN ST |-> Mul(disc, Maximum0(Sub(ST[i], K)))]
                Y == [i \in DOMAIN ST |-> Mul(disc, ST[i])]
                EY == S0
                beta == Beta(X, Y)
                X_cv == [i \in DOMAIN X |-> Add(X[i], Mul(beta, Sub(EY, Y[i])))]
            IN [Return(Mean(X_cv), StepN(g1, n_paths), seed # None, Z, beta)
                   EXCEPT !.var = VarSum(Y)]

(***************************************************************************)
(* A caller that calls the estimators one after the other, as the          *)
(* experiment loops do.  rng is the process-wide generator; last is the    *)
(* call that has just returned or raised, with the generator state it      *)
(* found; ref is an earlier seeded call the caller has kept the result of. *)
(***************************************************************************)
VARIABLES pc, rng, last, ref, thr, ci, bs

vars == <<pc, rng, last, ref, thr, ci, bs>>

Estimators == {"plain", "antithetic", "control_variate"}
Seeds == {None} \cup 0..MaxSeed
PathCounts == -1..MaxPaths

Contract(S0, K, r, sigma, T) ==
    [S0 |-> S0, K |-> K, r |-> r, sigma |-> sigma, T |-> T]

\* every contract the caller may pass, the invalid ones included
AnyContracts ==
    {Contract(S0, K, r, sigma, T) :
        S0 \in {0, 10 * ONE}, K \in {0, 10 * ONE}, r \in {0, 5},
        sigma \in {-20, 0, 20}, T \in {0 - ONE, 0, ONE}}

\* contracts that satisfy the invariant of OptionContract
ValidContract(c) == c.S0 > 0 /\ c.K > 0 /\ c.sigma > 0 /\ c.T > 0
ValidContracts ==
    {Contract(S0, K, r, sigma, T) :
        S0 \in {10 * ONE}, K \in {9 * ONE, 10 * ONE}, r \in {5},
        sigma \in {20}, T \in {ONE}}

NoCall ==
    [op |-> "none", c |-> Contract(0, 0, 0, 0, 0), n_paths |-> 0,
     seed |-> None, rngBefore |-> 0, res |-> Raise("", 0, FALSE)]

NoRef ==
    [op |-> "none", c |-> Contract(0, 0, 0, 0, 0), n_paths |-> 0,
     seed |-> None, kind |-> "raise", value |-> NaN, Z |-> <<>>]

Estimate(op, c, n_paths, seed, g) ==
    CASE op = "plain" ->
            monte_carlo_european_call(c.S0, c.K, c.r, c.sigma, c.T, n_paths, seed, g)
      [] op = "antithetic" ->
            monte_carlo_european_call_antithetic(c.S0, c.K, c.r, c.sigma, c.T, n_paths, seed, g)
      [] op = "control_variate" ->
            monte_carlo_european_call_control_variate(c.S0, c.K, c.r, c.sigma, c.T, n_paths, seed, g)
      [] OTHER -> generate_standard_normals(n_paths, seed, g)

IdleRest ==
    /\ thr = <<>>
    /\ ci = <<>>
    /\ bs = <<>>

Init ==
    /\ pc = "idle"
    /\ rng \in RngStates
    /\ last = NoCall
    /\ ref = NoRef
    /\ IdleRest

\* one whole call of op: the generator and the caller see its effect at once
DoCall(op, c, n_paths, seed) ==
    /\ pc = "idle"
    /\ LET res == Estimate(op, c, n_paths, seed, rng)
       IN /\ last' = [op |-> op, c |-> c, n_paths |-> n_paths, seed |-> seed,
                      rngBefore |-> rng, res |-> res]
          /\ rng' = res.rng
    /\ pc' = "returned"
    /\ UNCHANGED <<ref, thr, ci, bs>>

CallEstimator(Cs) ==
    \E op \in Estimators, c \in Cs, n_paths \in PathCounts, seed \in Seeds :
        DoCall(op, c, n_paths, seed)

CallGenerate ==
    \E n_paths \in PathCounts, seed \in Seeds :
        DoCall("generate", Contract(0, 0, 0, 0, 0), n_paths, seed)

\* the caller takes the result and goes on to its next call
Continue ==
    /\ pc = "returned"
    /\ pc' = "idle"
    /\ last' = NoCall
    /\ ci' = <<>>
    /\ bs' = <<>>
    /\ UNCHANGED <<rng, ref, thr>>

Next ==
    \/ CallEstimator(AnyContracts)
    \/ CallGenerate
    \/ Continue

Spec == Init /\ [][Next]_vars

(***************************************************************************)
(* The same caller, which may keep the result of a seeded estimator call   *)
(* and compare a later call with the same arguments against it.            *)
(***************************************************************************)
Remember ==
    /\ pc = "returned"
    /\ last.op \in Estimators
    /\ last.seed # None
    /\ ref' = [op |-> last.op, c |-> last.c, n_paths |-> last.n_paths,
                seed |-> last.seed, kind |-> last.res.kind,
                value |-> last.res.value, Z |-> last.res.Z]
    /\ pc' = "idle"
    /\ last' = NoCall
    /\ UNCHANGED <<rng, thr, ci, bs>>

NextRepeat ==
    \/ CallEstimator(ValidContracts)
    \/ CallGenerate
    \/ Continue
    \/ Remember

SpecRepeat == Init /\ [][NextRepeat]_vars

SameArguments(a, b) ==
    /\ a.op = b.op
    /\ a.c = b.c
    /\ a.n_paths = b.n_paths
    /\ a.seed = b.seed

\* C1: a seeded estimator call returns the value an earlier call with the
\* same contract, n_paths and seed returned, whatever calls ran in between.
C1_SeededCallDeterministic ==
    (pc = "returned" /\ last.seed # None /\ SameArguments(last, ref))
        => /\ last.res.kind = ref.kind
           /\ last.res.value = ref.value

\* a repeated seeded call that found the generator where another seed and
\* other draws had left it, and returned a price
C1_Witness ==
    /\ pc = "returned"
    /\ last.seed # None
    /\ SameArguments(last, ref)
    /\ last.rngBefore # SeedState(last.seed)
    /\ last.n_paths >= 2
    /\ last.res.kind = "return"
    /\ last.res.value > 0

(***************************************************************************)
(* Claims about one call, under Spec.                                      *)
(***************************************************************************)
Returned(op) == pc = "returned" /\ last.op = op

\* C2: the antithetic estimator called with an odd n_paths raises at once:
\* the generator is neither reseeded nor advanced and no normal is drawn.
C2_OddPathsRaisesUncomputed ==
    (Returned("antithetic") /\ last.n_paths % 2 # 0)
        => /\ last.res.kind = "raise"
           /\ last.res.exc = OddPaths
           /\ last.res.drawn = 0
           /\ ~last.res.seeded
           /\ rng = last.rngBefore

\* an odd seeded call that found the generator away from its seed's state
C2_Witness ==
    /\ Returned("antithetic")
    /\ ValidContract(last.c)
    /\ last.n_paths = 3
    /\ last.seed # None
    /\ last.rngBefore # SeedState(last.seed)
    /\ last.res.kind = "raise"

InvalidParameters(call) ==
    \/ call.c.sigma <= 0
    \/ call.c.T <= 0
    \/ call.c.S0 <= 0
    \/ call.c.K <= 0
    \/ call.n_paths <= 0

\* C3: an estimator called with an invalid parameter raises instead of
\* returning an estimate.
C3_InvalidParametersRaise ==
    (pc = "returned" /\ last.op \in Estimators /\ InvalidParameters(last))
        => last.res.kind = "raise"

\* C5: a seeded call (to an estimator or to generate_standard_normals)
\* leaves the process-wide generator in the state it found it in.
C5_SeededCallLeavesGenerator ==
    (pc = "returned" /\ last.seed # None /\ last.n_paths >= 1
        /\ last.res.kind = "return")
        => rng = last.rngBefore

Threads == {1, 2}

ThreadCalls ==
    [pc : {"called"}, op : Estimators, c : ValidContracts,
     n_paths : 1..MaxPaths, seed : 0..MaxSeed, res : {Raise("", 0, FALSE)}]

InitThreads ==
    /\ pc = "idle"
    /\ rng \in RngStates
    /\ last = NoCall
    /\ ref = NoRef
    /\ thr \in [Threads -> ThreadCalls]
    /\ ci = <<>>
    /\ bs = <<>>

OddAntithetic(call) == call.op = "antithetic" /\ call.n_paths % 2 # 0

\* lines 107-108 of the antithetic estimator: the call ends before it seeds
ThreadRaise(t) ==
    /\ thr[t].pc = "called"
    /\ OddAntithetic(thr[t])
    /\ thr' = [thr EXCEPT ![t].pc = "done",
                          ![t].res = Estimate(thr[t].op, thr[t].c, thr[t].n_paths,
                                              thr[t].seed, rng)]
    /\ UNCHANGED <<pc, rng, last, ref, ci, bs>>

\* np.random.seed(seed)
ThreadSeed(t) ==
    /\ thr[t].pc = "called"
    /\ ~OddAntithetic(thr[t])
    /\ rng' = Reseed(rng, thr[t].seed)
    /\ thr' = [thr EXCEPT ![t].pc = "seeded"]
    /\ UNCHANGED <<pc, last, ref, ci, bs>>

\* np.random.standard_normal(...) on the generator as it is now, and the
\* pricing of what was drawn
ThreadDraw(t) ==
    /\ thr[t].pc = "seeded"
    /\ LET res == Estimate(thr[t].op, thr[t].c, thr[t].n_paths, None, rng)
       IN /\ rng' = res.rng
          /\ thr' = [thr EXCEPT ![t].pc = "done",
                                ![t].res = [res EXCEPT !.seeded = TRUE]]
    /\ UNCHANGED <<pc, last, ref, ci, bs>>

NextThreads ==
    \E t \in Threads : ThreadRaise(t) \/ ThreadSeed(t) \/ ThreadDraw(t)

SpecThreads == InitThreads /\ [][NextThreads]_vars

\* the outcome of the call when it runs alone
Alone(call) == Estimate(call.op, call.c, call.n_paths, call.seed, 0)

\* C6: each of two concurrent seeded calls returns the value it returns
\* when it runs alone, under every interleaving of seedings and draws.
C6_ConcurrentCallsAsAlone ==
    \A t \in Threads :
        thr[t].pc = "done"
            => /\ thr[t].res.kind = Alone(thr[t]).kind
               /\ thr[t].res.value = Alone(thr[t]).value

(***************************************************************************)
(* src/analytics/confidence_intervals.py                                   *)
(***************************************************************************)
\* np.std(samples, ddof=1): NaN (with a warning) on fewer than 2 samples
Std(samples) ==
    LET n == Len(samples)
        m == Mean(samples)
    IN IF n <= 1 \/ HasNaN(samples) THEN NaN
       ELSE Sqrt(Sum([i \in DOMAIN samples |-> (samples[i] - m) * (samples[i] - m)])
                    \div ((n - 1) * ONE))

\* the upper and the lower bound exchanged
confidence_interval_swapped(samples, alpha) ==
    LET mean == Mean(samples)
        std == Std(samples)
        n == Len(samples)
        z == 196
        margin == Div(Mul(z, std), Sqrt(n * ONE))
    IN [kind |-> "return", mean |-> mean, lower |-> Add(mean, margin),
        upper |-> Sub(mean, margin), z |-> z, std |-> std, margin |-> margin]

confidence_interval(samples, alpha) ==
    LET mean == Mean(samples)
        std == Std(samples)
        n == Len(samples)
        z == 196
        margin == Div(Mul(z, std), Sqrt(n * ONE))
    IN [kind |-> "return", mean |-> mean, lower |-> Sub(mean, margin),
        upper |-> Add(mean, margin), z |-> z, std |-> std, margin |-> margin]

\* price estimates a SampleSet may hold, and the significance levels
SampleValues == {0, 9 * ONE, 10 * ONE, 12 * ONE}
Alphas == {1, 5, 10}

RECURSIVE SeqsUpTo(_, _)
SeqsUpTo(S, n) ==
    IF n = 0 THEN {<<>>}
    ELSE LET shorter == SeqsUpTo(S, n - 1)
         IN shorter \cup {Append(q, x) : q \in shorter, x \in S}

SampleSets == SeqsUpTo(SampleValues, MaxSamples)

InitCI ==
    /\ pc = "idle"
    /\ rng = 0
    /\ last = NoCall
    /\ ref = NoRef
    /\ thr = <<>>
    /\ ci = <<>>
    /\ bs = <<>>

CallConfidenceInterval ==
    /\ pc = "idle"
    /\ \E samples \in SampleSets, alpha \in Alphas :
          ci' = [samples |-> samples, alpha |-> alpha,
                 res |-> confidence_interval(samples, alpha)]
    /\ pc' = "returned"
    /\ UNCHANGED <<rng, last, ref, thr, bs>>

NextCI ==
    \/ CallConfidenceInterval
    \/ Continue

SpecCI == InitCI /\ [][NextCI]_vars

CIReturned == pc = "returned" /\ ci # <<>>

\* C4: confidence_interval on fewer than 2 samples raises
\* (InsufficientSamples) and returns no (mean, lower, upper).
C4_TooFewSamplesRaise ==
    (CIReturned /\ Len(ci.samples) < 2) => ci.res.kind = "raise"

AllSame(samples) == \A i, j \in DOMAIN samples : samples[i] = samples[j]

ZCritical(alpha) ==
    CASE alpha = 1 -> 258
      [] alpha = 5 -> 196
      [] alpha = 10 -> 164

\* C9: the margin is z(alpha) * s / sqrt(n), with the critical value of
\* the alpha the caller passed.
C9_MarginFollowsAlpha ==
    (CIReturned /\ Len(ci.samples) >= 2)
        => ci.res.margin =
            Div(Mul(ZCritical(ci.alpha), ci.res.std), Sqrt(Len(ci.samples) * ONE))

(***************************************************************************)
(* src/models/black_scholes.py.  The two prices are carried exactly, in    *)
(* units of 1 / ONE^3, so that their difference is not blurred by the      *)
(* rounding of the fixed-point product.                                    *)
(***************************************************************************)
\* 1 - Phi(z) for z >= 0, in steps of 0.1
UpperTailTab ==
    << 50, 46, 42, 38, 34, 31, 27, 24, 21, 18, 16, 14, 12, 10, 8,
       7, 5, 4, 4, 3, 2, 2, 1, 1, 1, 1 >>

UpperTail(z) ==
    LET i == z \div 10 + 1
    IN IF i > Len(UpperTailTab) THEN 0 ELSE UpperTailTab[i]

\* scipy.stats.norm.cdf: the tail of |x|, taken from 1 for x > 0
norm_cdf(x) ==
    IF IsNaN(x) THEN NaN
    ELSE IF x > 0 THEN ONE - UpperTail(x) ELSE UpperTail(0 - x)

d1(S0, K, r, sigma, T) ==
    Div(Add(Log(Div(S0, K)), Mul(r + Mul(sigma, sigma) \div 2, T)),
        Mul(sigma, Sqrt(T)))

d2(S0, K, r, sigma, T) == Sub(d1(S0, K, r, sigma, T), Mul(sigma, Sqrt(T)))

european_call_price(S0, K, r, sigma, T) ==
    LET D1 == d1(S0, K, r, sigma, T)
        D2 == d2(S0, K, r, sigma, T)
    IN S0 * norm_cdf(D1) * ONE - K * Exp(0 - Mul(r, T)) * norm_cdf(D2)

\* the strike leg weighted by cdf(D2) as in the call, not by cdf(-D2)
european_put_price_sign_slip(S0, K, r, sigma, T) ==
    LET D1 == d1(S0, K, r, sigma, T)
        D2 == d2(S0, K, r, sigma, T)
    IN K * Exp(0 - Mul(r, T)) * norm_cdf(D2) - S0 * norm_cdf(Neg(D1)) * ONE

european_put_price(S0, K, r, sigma, T) ==
    LET D1 == d1(S0, K, r, sigma, T)
        D2 == d2(S0, K, r, sigma, T)
    IN K * Exp(0 - Mul(r, T)) * norm_cdf(Neg(D2)) - S0 * norm_cdf(Neg(D1)) * ONE

\* valid contracts around the money
PricedContracts ==
    {Contract(S0, K, r, sigma, T) :
        S0 \in {8 * ONE, 9 * ONE, 10 * ONE, 11 * ONE},
        K \in {9 * ONE, 10 * ONE, 11 * ONE}, r \in {0, 5, 10},
        sigma \in {10, 20, 40}, T \in {ONE \div 2, ONE, 2 * ONE}}

\* tests/test_black_scholes.py: both prices of one contract
CallPutPrices ==
    /\ pc = "idle"
    /\ \E c \in PricedContracts :
          bs' = [c |-> c,
                 call |-> european_call_price(c.S0, c.K, c.r, c.sigma, c.T),
                 put |-> european_put_price(c.S0, c.K, c.r, c.sigma, c.T)]
    /\ pc' = "returned"
    /\ UNCHANGED <<rng, last, ref, thr, ci>>

NextBS ==
    \/ CallPutPrices
    \/ Continue

SpecBS == InitCI /\ [][NextBS]_vars

\* S0 - K * exp(-r * T), in units of 1 / ONE^3
ParityRhs(c) == c.S0 * ONE * ONE - c.K * Exp(0 - Mul(c.r, c.T)) * ONE

\* 1e-6 in units of 1 / ONE^3
Tolerance == (ONE * ONE * ONE) \div 1000000

\* C10: for a valid contract call - put is S0 - K * exp(-r * T) within 1e-6.
C10_PutCallParity ==
    (pc = "returned" /\ bs # <<>>)
        => /\ ValidContract(bs.c)
           /\ Abs(bs.call - bs.put - ParityRhs(bs.c)) < Tolerance

\* a contract whose call and put both have a price
C10_Witness ==
    /\ pc = "returned"
    /\ bs # <<>>
    /\ bs.call > 0
    /\ bs.put > 0
    /\ bs.c.S0 # bs.c.K
    /\ bs.c.r > 0

(***************************************************************************)
(* Claims about the draws an estimator prices, under Spec.                 *)
(***************************************************************************)
EvenAntithetic ==
    Returned("antithetic") /\ last.n_paths % 2 = 0 /\ last.n_paths >= 0

\* C12: for even n_paths the antithetic estimator takes n_paths/2 normals
\* from the generator in one draw and no more; the vector it prices has
\* length n_paths, element i + n_paths/2 is the negation of element i, and
\* the estimate is the discounted mean of all n_paths payoffs.
C12_AntitheticMirrorsOneHalfDraw ==
    EvenAntithetic
        => LET half == last.n_paths \div 2
               g1 == Reseed(last.rngBefore, last.seed)
               Z == last.res.Z
               c == last.c
           IN /\ last.res.kind = "return"
              /\ last.res.drawn = half
              /\ rng = StepN(g1, half)
              /\ Len(Z) = last.n_paths
              /\ \A i \in 1..half :
                    /\ Z[i] = Normal(StepN(g1, i))
                    /\ Z[i + half] = 0 - Z[i]
              /\ last.res.value =
                    Mul(Exp(0 - Mul(c.r, c.T)),
                        Mean(Payoff(gbm_terminal_price(c.S0, c.r, c.sigma, c.T, Z), c.K)))

\* two pairs priced for a valid contract, in the money
C12_Witness ==
    /\ EvenAntithetic
    /\ last.n_paths = 4
    /\ ValidContract(last.c)
    /\ last.res.Z[1] # last.res.Z[2]
    /\ last.res.value > 0

(***************************************************************************)
(* Claims about two seeded calls of one run, under SpecRepeat: ref is the  *)
(* earlier call, last the later one, in whichever order the caller made    *)
(* them and with whatever calls in between.                                *)
(***************************************************************************)
SameSeedAndCount ==
    /\ pc = "returned"
    /\ last.op \in Estimators
    /\ ref.op \in Estimators
    /\ last.seed # None
    /\ ref.seed = last.seed
    /\ ref.n_paths = last.n_paths
    /\ last.n_paths >= 0

\* C13: with the same seed and n_paths the plain and the control-variate
\* estimator price the identical draw vector, and for even n_paths the
\* antithetic estimator's half draw is the first n_paths/2 elements of that
\* vector, whichever of the calls came first.
C13_EstimatorsShareSeedStream ==
    SameSeedAndCount
        => LET half == last.n_paths \div 2
           IN /\ ("antithetic" \notin {last.op, ref.op})
                    => last.res.Z = ref.Z
              /\ (last.n_paths % 2 = 0)
                    => SubSeq(last.res.Z, 1, half) = SubSeq(ref.Z, 1, half)

\* an antithetic call after a control-variate call of the same seed, with
\* the generator moved off the seed's state in between
C13_Witness ==
    /\ SameSeedAndCount
    /\ last.op = "antithetic"
    /\ ref.op = "control_variate"
    /\ last.n_paths = 4
    /\ last.rngBefore # StepN(SeedState(last.seed), 4)
    /\ last.res.kind = "return"
    /\ Len(ref.Z) = 4

=============================================================================
